---- MODULE Spec2Model ----
(***************************************************************************)
(* Model of tend/abci/protocol.py: the per-connection ABCI protocol engine *)
(* (class Protocol) running on an asyncio event loop.                      *)
(*                                                                         *)
(* Every callback the event loop runs is one action: the transport's calls *)
(* (connection_made, data_received, connection_lost), one step of a task   *)
(* (from its creation or resumption up to its next suspension or its end), *)
(* and one done-callback.  The loop is single-threaded, so each is atomic. *)
(***************************************************************************)
EXTENDS Integers, Sequences, FiniteSets, TLC

\* Connections the server may accept.
Conns == {1, 2}

\* The connection that is made in the specifications of a single connection.
Single == {1}

\* Number of requests a peer sends on one connection.
MaxRequests == 2

\* Number of frames a peer sends in the specification of the byte stream.
MaxFrames == 3

\* Length of the long payloads of the framing specification: 63, 64 and 65
\* bytes sit around the first two-byte length prefix (64 << 1 = 128).
LongPayload == 64

VARIABLES
    connections,  \* server_state.connections
    conn,         \* per connection: "new", "open", "broken" (data_received raised), "lost"
    buffer,       \* self.buffer: bytes received and not yet extracted
    tasks,        \* self.tasks: the deque of dispatch units
    handler,      \* self.handler: "None" or the bound handler
    written,      \* the calls of self.transport.write, in order
    callbacks,    \* done-callbacks (process_response_tasks) scheduled and not yet run
    closeTask,    \* the task of close(): "none", "scheduled", "finished", "failed"
    closeCb,      \* its done-callback: "none", "scheduled", "ran"
    lostExc,      \* the exc of connection_lost after `exc or ConnectionResetError`
    wire,         \* bytes the peer has sent that the transport has not delivered yet
    sent,         \* number of requests the peer has sent
    received,     \* history: every byte delivered to data_received
    extracted,    \* history: the payloads data_received extracted
    getCalls,     \* history: the arguments of app.get_connection_handler
    overtook,     \* history: ids of the units whose task ended before an earlier unit's
    dropped,      \* history: ids of the units removed from the queue as failed
    loopErrors    \* history: exceptions that reached the event loop from a callback

vars == <<connections, conn, buffer, tasks, handler, written, callbacks, closeTask,
          closeCb, lostExc, wire, sent, received, extracted, getCalls, overtook,
          dropped, loopErrors>>

----------------------------------------------------------------------------
(* Bytes and the varint codec (betterproto.encode_varint / decode_varint). *)

\* value >> 7, value & 0x7F and 0x80 | bits on naturals.
Shr7(n) == n \div 128
Low7(n) == n % 128

RECURSIVE EncodeVarint(_)
\* betterproto.encode_varint: seven bits per byte, low group first, the high
\* bit set on every byte but the last.
EncodeVarint(value) ==
    IF Shr7(value) = 0 THEN <<Low7(value)>>
    ELSE <<128 + Low7(value)>> \o EncodeVarint(Shr7(value))

RECURSIVE Pow128(_)
Pow128(k) == IF k = 0 THEN 1 ELSE 128 * Pow128(k - 1)

RECURSIVE DecodeVarintFrom(_, _, _, _)
\* The loop of betterproto.decode_varint; pos is the index of the next byte
\* (1-based), k the number of bytes read so far (shift = 7 * k).
\* buffer[pos] past the end raises IndexError; shift >= 64 raises ValueError.
DecodeVarintFrom(buf, pos, k, result) ==
    IF pos > Len(buf) THEN [ok |-> FALSE, error |-> "IndexError", result |-> 0, pos |-> pos]
    ELSE LET b == buf[pos]
             r == result + Low7(b) * Pow128(k)
         IN  IF b < 128 THEN [ok |-> TRUE, error |-> "", result |-> r, pos |-> pos + 1]
             ELSE IF 7 * (k + 1) >= 64
                  THEN [ok |-> FALSE, error |-> "ValueError", result |-> 0, pos |-> pos + 1]
                  ELSE DecodeVarintFrom(buf, pos + 1, k + 1, r)

\* betterproto.decode_varint(buffer, 0); pos in the result counts the bytes
\* consumed, as the code's pos does.
DecodeVarint(buf) ==
    LET d == DecodeVarintFrom(buf, 1, 0, 0)
    IN  [ok |-> d.ok, error |-> d.error, result |-> d.result, pos |-> d.pos - 1]

\* The wire form of a payload: process_response's two writes, and the framing
\* the peer uses for requests.
Prefix(data) == EncodeVarint(Len(data) * 2)
Frame(data) == Prefix(data) \o data

----------------------------------------------------------------------------
(* The request and response schema (tend.pb.tendermint.abci), seen from    *)
(* the protocol: a payload is the field number of its variant followed by  *)
(* the bytes of the variant's message; the empty payload has no variant.   *)

RequestName(tag) ==
    CASE tag = 1 -> "echo"
      [] tag = 2 -> "flush"
      [] tag = 3 -> "info"
      [] tag = 4 -> "set_option"
      [] tag = 5 -> "init_chain"
      [] tag = 6 -> "query"
      [] tag = 7 -> "begin_block"
      [] tag = 8 -> "check_tx"
      [] tag = 9 -> "deliver_tx"
      [] tag = 10 -> "end_block"
      [] tag = 11 -> "commit"
      [] tag = 12 -> "list_snapshots"
      [] tag = 13 -> "offer_snapshot"
      [] tag = 14 -> "load_snapshot_chunk"
      [] tag = 15 -> "apply_snapshot_chunk"
      [] OTHER -> ""

\* betterproto.which_one_of(Request().parse(data), "value")
ParseRequest(data) ==
    IF data = <<>> THEN [name |-> "", message |-> <<>>]
    ELSE [name |-> RequestName(data[1]), message |-> Tail(data)]

ResponseTag(name) ==
    CASE name = "echo" -> 2
      [] name = "flush" -> 3
      [] name = "info" -> 4
      [] name = "set_option" -> 5
      [] name = "init_chain" -> 6
      [] name = "query" -> 7
      [] name = "begin_block" -> 8
      [] name = "check_tx" -> 9
      [] name = "deliver_tx" -> 10
      [] name = "end_block" -> 11
      [] name = "commit" -> 12
      [] name = "list_snapshots" -> 13
      [] name = "offer_snapshot" -> 14
      [] name = "load_snapshot_chunk" -> 15
      [] name = "apply_snapshot_chunk" -> 16
      [] OTHER -> 0

\* bytes(Response(**{name: message}))
EncodeResponse(name, message) == <<ResponseTag(name)>> \o message

\* Not the code: an echo response built without the request's message.
ResponseEchoEmpty(message) == <<>>

\* ResponseEcho(message.message) and ResponseFlush()
ResponseEcho(message) == message
ResponseFlush == <<>>

----------------------------------------------------------------------------
(* Classification and handlers.                                            *)

InfoNames == {"info", "set_option", "query"}
ConsensusNames == {"init_chain", "begin_block", "deliver_tx", "end_block", "commit"}
StateSyncNames == {"list_snapshots", "offer_snapshot", "load_snapshot_chunk",
                   "apply_snapshot_chunk"}
MempoolNames == {"check_tx"}

\* The if/elif chain of async_response: the handler class asked of the
\* application for a request name, "None" when no branch matches.
Category(name) ==
    IF name \in InfoNames THEN "InfoHandler"
    ELSE IF name \in ConsensusNames THEN "ConsensusHandler"
    ELSE IF name \in StateSyncNames THEN "StateSyncHandler"
    ELSE IF name \in MempoolNames THEN "MempoolHandler"
    ELSE "None"

\* getattr(self.handler, name, None): the operations a handler exposes are
\* those of its category; "EchoInfoHandler" is an application's InfoHandler
\* that also defines echo and flush.
HandlerOps(h) ==
    CASE h = "InfoHandler" -> InfoNames
      [] h = "EchoInfoHandler" -> InfoNames \cup {"echo", "flush"}
      [] h = "ConsensusHandler" -> ConsensusNames
      [] h = "StateSyncHandler" -> StateSyncNames
      [] h = "MempoolHandler" -> MempoolNames
      [] OTHER -> {}

\* What a handler operation answers: the body of its response message.
HandlerResponse == <<7>>

\* What app.get_connection_handler(kind) may return in the specification of
\* the application-defined handlers: an instance of the class asked for.
AppHandlers(kind) ==
    IF kind = "InfoHandler" THEN {"InfoHandler", "EchoInfoHandler"} ELSE {kind}

----------------------------------------------------------------------------
(* Dispatch units: the (name, task) pairs of self.tasks.  st is the        *)
(* position of the task's coroutine async_response:                        *)
(*   "created"   created by create_task, first step not yet run            *)
(*   "binding"   suspended in await self.app.get_connection_handler(kind)  *)
(*   "calling"   suspended in await handler(message)                       *)
(*   "result"    done, response holds the returned message                 *)
(*   "exception" done, exc holds the raised exception                      *)

NewTask(id, request) ==
    [id |-> id, name |-> request.name, message |-> request.message,
     st |-> "created", kind |-> "None", response |-> <<>>, exc |-> ""]

\* task.done()
Done(t) == t.st \in {"result", "exception"}

Returned(t, response) == [t EXCEPT !.st = "result", !.response = response]
Raised(t, exc) == [t EXCEPT !.st = "exception", !.exc = exc]

\* Not the code: a request nobody answered is acknowledged with an empty
\* response instead of failing.
FallbackAcknowledges(t) ==
    IF t.name = "echo" THEN Returned(t, ResponseEcho(t.message))
    ELSE Returned(t, ResponseFlush)

\* `if response is None:` onwards: the built-in answers, then NotImplementedError.
Fallback(t) ==
    IF t.name = "echo" THEN Returned(t, ResponseEcho(t.message))
    ELSE IF t.name = "flush" THEN Returned(t, ResponseFlush)
    ELSE Raised(t, "NotImplementedError")

\* The `try:` block up to its first suspension, with self.handler = h.
ProcessMessage(t, h) ==
    IF h # "None" /\ t.name \in HandlerOps(h)
    THEN [t EXCEPT !.st = "calling"]
    ELSE Fallback(t)

----------------------------------------------------------------------------
(* Framing: the while loop of data_received.                               *)

RECURSIVE ExtractSkipsEmpty(_, _)
\* Not the code: a frame of length zero is consumed without being dispatched.
ExtractSkipsEmpty(buf, payloads) ==
    IF Len(buf) = 0 THEN [buffer |-> buf, payloads |-> payloads, error |-> ""]
    ELSE LET d == DecodeVarint(buf)
             length == d.result \div 2
         IN  IF ~d.ok THEN [buffer |-> buf, payloads |-> payloads, error |-> d.error]
             ELSE IF Len(buf) >= d.pos + length
                  THEN ExtractSkipsEmpty(SubSeq(buf, d.pos + length + 1, Len(buf)),
                                         IF length = 0 THEN payloads
                                         ELSE Append(payloads,
                                                     SubSeq(buf, d.pos + 1, d.pos + length)))
                  ELSE [buffer |-> buf, payloads |-> payloads, error |-> ""]

RECURSIVE ExtractSkipsByte(_, _)
\* Not the code: the rest of the buffer is taken one byte too far.
ExtractSkipsByte(buf, payloads) ==
    IF Len(buf) = 0 THEN [buffer |-> buf, payloads |-> payloads, error |-> ""]
    ELSE LET d == DecodeVarint(buf)
             length == d.result \div 2
         IN  IF ~d.ok THEN [buffer |-> buf, payloads |-> payloads, error |-> d.error]
             ELSE IF Len(buf) >= d.pos + length
                  THEN ExtractSkipsByte(SubSeq(buf, d.pos + length + 2, Len(buf)),
                                        Append(payloads, SubSeq(buf, d.pos + 1, d.pos + length)))
                  ELSE [buffer |-> buf, payloads |-> payloads, error |-> ""]

RECURSIVE Extract(_, _)
\* Runs the loop on buf; payloads are those extracted so far.  A raising
\* decode_varint leaves the loop with the buffer as it is.
Extract(buf, payloads) ==
    IF Len(buf) = 0 THEN [buffer |-> buf, payloads |-> payloads, error |-> ""]
    ELSE LET d == DecodeVarint(buf)
             length == d.result \div 2
         IN  IF ~d.ok THEN [buffer |-> buf, payloads |-> payloads, error |-> d.error]
             ELSE IF Len(buf) >= d.pos + length
                  THEN Extract(SubSeq(buf, d.pos + length + 1, Len(buf)),
                               Append(payloads, SubSeq(buf, d.pos + 1, d.pos + length)))
                  ELSE [buffer |-> buf, payloads |-> payloads, error |-> ""]

\* Not the code: the units of one call are appended last request first.
EnqueueReversed(queue, payloads, first) ==
    queue \o [i \in 1..Len(payloads) |->
                  NewTask(first + Len(payloads) - i,
                          ParseRequest(payloads[Len(payloads) + 1 - i]))]

\* process_request for each extracted payload: one unit appended per request,
\* numbered in decode order from `first`.
Enqueue(queue, payloads, first) ==
    queue \o [i \in 1..Len(payloads) |-> NewTask(first + i - 1, ParseRequest(payloads[i]))]

----------------------------------------------------------------------------
(* Draining: process_response_tasks, process_response_task and             *)
(* process_response.                                                       *)

\* Not the code: the prefix is the length of the body, not shifted.
ProcessResponseUnshifted(log, t) ==
    LET data == EncodeResponse(t.name, t.response)
    IN  log \o << [unit |-> t.id, data |-> EncodeVarint(Len(data))],
                  [unit |-> t.id, data |-> data] >>

\* process_response: the prefix, then the body, as two writes.
ProcessResponse(log, t) ==
    LET data == EncodeResponse(t.name, t.response)
    IN  log \o << [unit |-> t.id, data |-> Prefix(data)], [unit |-> t.id, data |-> data] >>

RECURSIVE DrainAnyDone(_, _)
\* Not the code: a drain that takes completed units from anywhere in the queue.
DrainAnyDone(queue, log) ==
    LET ready == {i \in 1..Len(queue) : Done(queue[i])}
    IN  IF ready = {} THEN [tasks |-> queue, written |-> log, raised |-> "", dropped |-> {}]
        ELSE LET i == CHOOSE j \in ready : \A k \in ready : j <= k
                 t == queue[i]
                 rest == SubSeq(queue, 1, i - 1) \o SubSeq(queue, i + 1, Len(queue))
             IN  IF t.st = "exception"
                 THEN [tasks |-> rest, written |-> log, raised |-> t.exc, dropped |-> {t.id}]
                 ELSE DrainAnyDone(rest, ProcessResponse(log, t))

\* Not the code: a head that was written is left in the queue (the removal
\* of `finally:` done only for a head that raised).
DrainLeavesWritten(queue, log) ==
    IF queue = <<>> \/ ~Done(Head(queue))
    THEN [tasks |-> queue, written |-> log, raised |-> "", dropped |-> {}]
    ELSE IF Head(queue).st = "exception"
         THEN [tasks |-> Tail(queue), written |-> log, raised |-> Head(queue).exc,
               dropped |-> {Head(queue).id}]
         ELSE [tasks |-> queue, written |-> ProcessResponse(log, Head(queue)),
               raised |-> "", dropped |-> {}]

RECURSIVE Drain(_, _)
\* process_response_tasks on the queue: while the head is done, write its
\* response and remove it.  A head that raised is removed (finally:) and its
\* exception leaves the loop and the callback.
Drain(queue, log) ==
    IF queue = <<>> \/ ~Done(Head(queue))
    THEN [tasks |-> queue, written |-> log, raised |-> "", dropped |-> {}]
    ELSE IF Head(queue).st = "exception"
         THEN [tasks |-> Tail(queue), written |-> log, raised |-> Head(queue).exc,
               dropped |-> {Head(queue).id}]
         ELSE Drain(Tail(queue), ProcessResponse(log, Head(queue)))

----------------------------------------------------------------------------
(* Teardown.                                                               *)

\* asyncio.Task.set_exception raises RuntimeError ("Task does not support
\* set_exception operation") whatever the state of the task: the list
\* comprehension of close() ends at its first element, no task is changed,
\* and gather is reached only with an empty queue.
Close(queue) ==
    IF queue = <<>> THEN [tasks |-> queue, outcome |-> "finished"]
    ELSE [tasks |-> queue, outcome |-> "failed"]

\* Not the code: a done-callback that accepts the future and discards.
CloseCallbackDiscards(conns, c) == [connections |-> conns \ {c}, raised |-> ""]

\* The done-callback `lambda: ...discard(self)` takes no argument and is
\* called with the future: TypeError before discard is reached.
CloseCallbackEffect(conns, c) == [connections |-> conns, raised |-> "TypeError"]

----------------------------------------------------------------------------
(* The peer.                                                               *)

\* The request payloads a peer sends: an empty payload, echo with the
\* message <<5>>, flush, info and commit.
Payloads == {<<>>, <<1, 5>>, <<2>>, <<3>>, <<11>>}

\* An echo payload of n bytes.
LongEcho(n) == <<1>> \o [i \in 1..(n - 1) |-> i]

\* The payloads of the framing specification.
LongPayloads == {<<>>, <<3>>, LongEcho(LongPayload - 1), LongEcho(LongPayload),
                 LongEcho(LongPayload + 1)}

----------------------------------------------------------------------------
(* The state after Protocol.__init__ and the actions.                      *)

Init ==
    /\ connections = {}
    /\ conn = [c \in Conns |-> "new"]
    /\ buffer = [c \in Conns |-> <<>>]
    /\ tasks = [c \in Conns |-> <<>>]
    /\ handler = [c \in Conns |-> "None"]
    /\ written = [c \in Conns |-> <<>>]
    /\ callbacks = [c \in Conns |-> 0]
    /\ closeTask = [c \in Conns |-> "none"]
    /\ closeCb = [c \in Conns |-> "none"]
    /\ lostExc = [c \in Conns |-> ""]
    /\ wire = [c \in Conns |-> <<>>]
    /\ sent = [c \in Conns |-> 0]
    /\ received = [c \in Conns |-> <<>>]
    /\ extracted = [c \in Conns |-> <<>>]
    /\ getCalls = [c \in Conns |-> <<>>]
    /\ overtook = [c \in Conns |-> {}]
    /\ dropped = [c \in Conns |-> {}]
    /\ loopErrors = [c \in Conns |-> {}]

\* Not the code: connection_made replaces the set by the new connection.
RegisterAlone(conns, c) == {c}

\* self.server_state.connections.add(self)
Register(conns, c) == conns \cup {c}

\* connection_made
ConnectionMade(c) ==
    /\ conn[c] = "new"
    /\ conn' = [conn EXCEPT ![c] = "open"]
    /\ connections' = Register(connections, c)
    /\ UNCHANGED <<buffer, tasks, handler, written, callbacks, closeTask, closeCb,
                   lostExc, wire, sent, received, extracted, getCalls, overtook, dropped,
                   loopErrors>>

\* The peer writes one framed request to its socket.
Send(c, payload) ==
    /\ conn[c] = "open"
    /\ sent' = [sent EXCEPT ![c] = @ + 1]
    /\ wire' = [wire EXCEPT ![c] = @ \o Frame(payload)]
    /\ UNCHANGED <<connections, conn, buffer, tasks, handler, written, callbacks,
                   closeTask, closeCb, lostExc, received, extracted, getCalls, overtook,
                   dropped, loopErrors>>

\* The peer sends one of its MaxRequests requests.
PeerSends(c, payload) ==
    /\ sent[c] < MaxRequests
    /\ Send(c, payload)

\* The body of data_received(data), data being the next n bytes of the
\* stream.  An exception of decode_varint leaves data_received; an open
\* transport then stops reading and will call connection_lost.
Receive(c, n) ==
    /\ n \in 1..Len(wire[c])
    /\ LET data == SubSeq(wire[c], 1, n)
           x == Extract(buffer[c] \o data, <<>>)
       IN  /\ wire' = [wire EXCEPT ![c] = SubSeq(@, n + 1, Len(@))]
           /\ received' = [received EXCEPT ![c] = @ \o data]
           /\ buffer' = [buffer EXCEPT ![c] = x.buffer]
           /\ extracted' = [extracted EXCEPT ![c] = @ \o x.payloads]
           /\ tasks' = [tasks EXCEPT ![c] = Enqueue(@, x.payloads, Len(extracted[c]) + 1)]
           /\ conn' = [conn EXCEPT ![c] = IF x.error # "" /\ @ = "open" THEN "broken" ELSE @]
    /\ UNCHANGED <<connections, handler, written, callbacks, closeTask, closeCb,
                   lostExc, sent, getCalls, overtook, dropped, loopErrors>>

\* data_received as an asyncio transport calls it: between connection_made
\* and connection_lost.
DataReceived(c, n) ==
    /\ conn[c] = "open"
    /\ Receive(c, n)

\* data_received called after connection_lost with bytes the peer had sent
\* before: the method itself does not look at the state of the connection.
DataReceivedAfterLost(c, n) ==
    /\ conn[c] = "lost"
    /\ Receive(c, n)

\* A step of a unit's task has left it as `after`: when the task has ended,
\* the loop schedules its done-callback, process_response_tasks.
TaskStepped(c, i, after) ==
    /\ tasks' = [tasks EXCEPT ![c][i] = after]
    /\ callbacks' = [callbacks EXCEPT ![c] = IF Done(after) THEN @ + 1 ELSE @]
    /\ overtook' = [overtook EXCEPT ![c] =
                        IF Done(after) /\ \E j \in 1..(i - 1) : ~Done(tasks[c][j])
                        THEN @ \cup {after.id} ELSE @]

\* The first step of a unit's task: `if self.handler is None:` and, when no
\* handler is asked for, the message processing that follows.
TaskStart(c, i) ==
    /\ i \in 1..Len(tasks[c])
    /\ tasks[c][i].st = "created"
    /\ LET t == tasks[c][i]
           kind == Category(t.name)
       IN  IF handler[c] = "None" /\ kind # "None"
           THEN /\ TaskStepped(c, i, [t EXCEPT !.st = "binding", !.kind = kind])
                /\ getCalls' = [getCalls EXCEPT ![c] = Append(@, kind)]
           ELSE /\ TaskStepped(c, i, ProcessMessage(t, handler[c]))
                /\ UNCHANGED getCalls
    /\ UNCHANGED <<connections, conn, buffer, handler, written, closeTask, closeCb,
                   lostExc, wire, sent, received, extracted, dropped, loopErrors>>

\* app.get_connection_handler returns h: `self.handler = ...`, then the
\* message processing with that handler.
BindReturns(c, i, h) ==
    /\ i \in 1..Len(tasks[c])
    /\ tasks[c][i].st = "binding"
    /\ handler' = [handler EXCEPT ![c] = h]
    /\ TaskStepped(c, i, ProcessMessage(tasks[c][i], h))
    /\ UNCHANGED <<connections, conn, buffer, written, closeTask, closeCb, lostExc,
                   wire, sent, received, extracted, getCalls, dropped, loopErrors>>

\* app.get_connection_handler raises: the task ends with that exception.
BindRaises(c, i) ==
    /\ i \in 1..Len(tasks[c])
    /\ tasks[c][i].st = "binding"
    /\ TaskStepped(c, i, Raised(tasks[c][i], "BindError"))
    /\ UNCHANGED <<connections, conn, buffer, handler, written, closeTask, closeCb,
                   lostExc, wire, sent, received, extracted, getCalls, dropped,
                   loopErrors>>

\* The handler operation returns a response, or None (and the built-in
\* answers or NotImplementedError follow).
CallReturns(c, i, answers) ==
    /\ i \in 1..Len(tasks[c])
    /\ tasks[c][i].st = "calling"
    /\ TaskStepped(c, i, IF answers THEN Returned(tasks[c][i], HandlerResponse)
                                    ELSE Fallback(tasks[c][i]))
    /\ UNCHANGED <<connections, conn, buffer, handler, written, closeTask, closeCb,
                   lostExc, wire, sent, received, extracted, getCalls, dropped,
                   loopErrors>>

\* The handler operation raises: logged and re-raised, the task ends with it.
CallRaises(c, i) ==
    /\ i \in 1..Len(tasks[c])
    /\ tasks[c][i].st = "calling"
    /\ TaskStepped(c, i, Raised(tasks[c][i], "HandlerError"))
    /\ UNCHANGED <<connections, conn, buffer, handler, written, closeTask, closeCb,
                   lostExc, wire, sent, received, extracted, getCalls, dropped,
                   loopErrors>>

\* One done-callback of a unit's task: process_response_tasks.  An exception
\* leaving it is handed to the loop's exception handler.
ProcessResponseTasks(c) ==
    /\ callbacks[c] > 0
    /\ callbacks' = [callbacks EXCEPT ![c] = @ - 1]
    /\ LET d == Drain(tasks[c], written[c])
       IN  /\ tasks' = [tasks EXCEPT ![c] = d.tasks]
           /\ written' = [written EXCEPT ![c] = d.written]
           /\ dropped' = [dropped EXCEPT ![c] = @ \cup d.dropped]
           /\ loopErrors' = [loopErrors EXCEPT ![c] =
                                 IF d.raised = "" THEN @ ELSE @ \cup {d.raised}]
    /\ UNCHANGED <<connections, conn, buffer, handler, closeTask, closeCb, lostExc,
                   wire, sent, received, extracted, getCalls, overtook>>

\* connection_lost(exc): exc is None (FALSE) or an exception; the close task
\* is created with its done-callback and runs later.
ConnectionLost(c, withExc) ==
    /\ conn[c] \in {"open", "broken"}
    /\ conn[c] = "broken" => withExc
    /\ conn' = [conn EXCEPT ![c] = "lost"]
    /\ lostExc' = [lostExc EXCEPT ![c] =
                       IF withExc THEN "TransportError" ELSE "ConnectionResetError"]
    /\ closeTask' = [closeTask EXCEPT ![c] = "scheduled"]
    /\ UNCHANGED <<connections, buffer, tasks, handler, written, callbacks, closeCb,
                   wire, sent, received, extracted, getCalls, overtook, dropped, loopErrors>>

\* The task of close() runs; its end schedules its done-callback.
CloseRuns(c) ==
    /\ closeTask[c] = "scheduled"
    /\ tasks' = [tasks EXCEPT ![c] = Close(@).tasks]
    /\ closeTask' = [closeTask EXCEPT ![c] = Close(tasks[c]).outcome]
    /\ closeCb' = [closeCb EXCEPT ![c] = "scheduled"]
    /\ UNCHANGED <<connections, conn, buffer, handler, written, callbacks, lostExc,
                   wire, sent, received, extracted, getCalls, overtook, dropped, loopErrors>>

\* The done-callback of the close task; what it raises goes to the loop's
\* exception handler.
CloseCallback(c) ==
    /\ closeCb[c] = "scheduled"
    /\ closeCb' = [closeCb EXCEPT ![c] = "ran"]
    /\ LET e == CloseCallbackEffect(connections, c)
       IN  /\ connections' = e.connections
           /\ loopErrors' = [loopErrors EXCEPT ![c] =
                                 IF e.raised = "" THEN @ ELSE @ \cup {e.raised}]
    /\ UNCHANGED <<conn, buffer, tasks, handler, written, callbacks, closeTask,
                   lostExc, wire, sent, received, extracted, getCalls, overtook,
                   dropped>>

Next ==
    \E c \in Single :
        \/ ConnectionMade(c)
        \/ \E payload \in Payloads : PeerSends(c, payload)
        \/ \E n \in 1..Len(wire[c]) : DataReceived(c, n)
        \/ \E i \in 1..Len(tasks[c]) : TaskStart(c, i)
        \/ \E i \in 1..Len(tasks[c]) : BindReturns(c, i, tasks[c][i].kind)
        \/ \E i \in 1..Len(tasks[c]) : BindRaises(c, i)
        \/ \E i \in 1..Len(tasks[c]), answers \in BOOLEAN : CallReturns(c, i, answers)
        \/ \E i \in 1..Len(tasks[c]) : CallRaises(c, i)
        \/ ProcessResponseTasks(c)
        \/ \E withExc \in BOOLEAN : ConnectionLost(c, withExc)
        \/ CloseRuns(c)
        \/ CloseCallback(c)

Spec == Init /\ [][Next]_vars

\* The framing specification: one peer sends one frame, short or long, and
\* the transport delivers it in fragments of every size.
FramingNext ==
    \E c \in Single :
        \/ ConnectionMade(c)
        \/ \E payload \in LongPayloads : sent[c] = 0 /\ PeerSends(c, payload)
        \/ \E n \in 1..Len(wire[c]) : DataReceived(c, n)

FramingSpec == Init /\ [][FramingNext]_vars

\* The specification of the byte stream: the peer sends MaxFrames frames, the
\* transport delivers them in calls of every size, and no task runs yet.
StreamNext ==
    \E c \in Single :
        \/ ConnectionMade(c)
        \/ \E payload \in Payloads : sent[c] < MaxFrames /\ Send(c, payload)
        \/ \E n \in 1..Len(wire[c]) : DataReceived(c, n)

StreamSpec == Init /\ [][StreamNext]_vars

\* The specification of the application-defined handlers: the peer sends
\* echo, flush and info requests, and the application answers
\* get_connection_handler with handlers that may define echo and flush.
EchoPayloads == {<<1, 5>>, <<2>>, <<3>>}

EchoHandlerNext ==
    \E c \in Single :
        \/ ConnectionMade(c)
        \/ \E payload \in EchoPayloads : PeerSends(c, payload)
        \/ \E n \in 1..Len(wire[c]) : DataReceived(c, n)
        \/ \E i \in 1..Len(tasks[c]) : TaskStart(c, i)
        \/ \E i \in 1..Len(tasks[c]) :
               \E h \in AppHandlers(tasks[c][i].kind) : BindReturns(c, i, h)
        \/ \E i \in 1..Len(tasks[c]) : BindRaises(c, i)
        \/ \E i \in 1..Len(tasks[c]), answers \in BOOLEAN : CallReturns(c, i, answers)
        \/ \E i \in 1..Len(tasks[c]) : CallRaises(c, i)
        \/ ProcessResponseTasks(c)

EchoHandlerSpec == Init /\ [][EchoHandlerNext]_vars

\* The specification of two connections served by the same loop, each peer
\* sending one request; the steps of the two interleave in every order.
TwoConnectionsNext ==
    \E c \in Conns :
        \/ ConnectionMade(c)
        \/ \E payload \in Payloads : sent[c] = 0 /\ PeerSends(c, payload)
        \/ \E n \in 1..Len(wire[c]) : DataReceived(c, n)
        \/ \E i \in 1..Len(tasks[c]) : TaskStart(c, i)
        \/ \E i \in 1..Len(tasks[c]) : BindReturns(c, i, tasks[c][i].kind)
        \/ \E i \in 1..Len(tasks[c]) : BindRaises(c, i)
        \/ \E i \in 1..Len(tasks[c]), answers \in BOOLEAN : CallReturns(c, i, answers)
        \/ \E i \in 1..Len(tasks[c]) : CallRaises(c, i)
        \/ ProcessResponseTasks(c)
        \/ \E withExc \in BOOLEAN : ConnectionLost(c, withExc)
        \/ CloseRuns(c)
        \/ CloseCallback(c)

TwoConnectionsSpec == Init /\ [][TwoConnectionsNext]_vars

\* The specification of a transport that may still deliver data after it has
\* called connection_lost.
LateDataNext ==
    \/ Next
    \/ \E c \in Single : \E n \in 1..Len(wire[c]) : DataReceivedAfterLost(c, n)

LateDataSpec == Init /\ [][LateDataNext]_vars

----------------------------------------------------------------------------
(* Properties.                                                             *)

\* The request of unit `id` of connection c, as it was decoded.
RequestOf(c, id) == ParseRequest(extracted[c][id])

\* The ids of the units whose response was written, one per write.
WrittenUnits(c) == [k \in 1..Len(written[c]) |-> written[c][k].unit]

\* C1: the responses written on a connection appear in the order in which
\* their requests were enqueued, whatever the order in which the tasks ended:
\* the unit ids of the writes never decrease.
C1_ResponsesInRequestOrder ==
    \A c \in Conns : \A j, k \in 1..Len(written[c]) :
        j < k => written[c][j].unit <= written[c][k].unit

\* Two units have both been written, the task of the second having ended
\* before the task of the first.
C1_Witness ==
    \E c \in Conns :
        /\ overtook[c] = {2}
        /\ WrittenUnits(c) = <<1, 1, 2, 2>>

\* C2: once self.handler is set to a handler it is never assigned again, so
\* no step changes a bound handler.
C2_HandlerNeverReassigned ==
    [][\A c \in Conns : handler[c] # "None" => handler'[c] = handler[c]]_vars

\* C3: app.get_connection_handler is invoked at most once over the lifetime
\* of a connection.
C3_BoundAtMostOnce ==
    \A c \in Conns : Len(getCalls[c]) <= 1

\* C4: when the close procedure of connection_lost(exc) has ended, every unit
\* of the queue is in a failed state carrying exc (ConnectionResetError for
\* None).
C4_PendingUnitsFailed ==
    \A c \in Conns :
        closeTask[c] \in {"finished", "failed"} =>
            \A i \in 1..Len(tasks[c]) :
                tasks[c][i].st = "exception" /\ tasks[c][i].exc = lostExc[c]

\* C5: after connection_lost, once the close procedure and its callback have
\* run and every pending unit has settled, the connection is no longer in
\* server_state.connections.
C5_RemovedOnceSettled ==
    \A c \in Conns :
        (closeCb[c] = "ran" /\ \A i \in 1..Len(tasks[c]) : Done(tasks[c][i]))
            => c \notin connections

\* C6: from connection_made on a connection is in server_state.connections,
\* and it is out of the set only after connection_lost and with none of its
\* units unsettled.
C6_MemberUntilSettled ==
    \A c \in Conns :
        conn[c] # "new" =>
            \/ c \in connections
            \/ conn[c] = "lost" /\ \A i \in 1..Len(tasks[c]) : Done(tasks[c][i])

\* The close procedure and its callback have run while a unit is unsettled,
\* and the connection is still registered.
C6_Witness ==
    \E c \in Conns :
        /\ conn[c] = "lost"
        /\ closeCb[c] = "ran"
        /\ \E i \in 1..Len(tasks[c]) : ~Done(tasks[c][i])
        /\ c \in connections

\* C7: after connection_lost no response is written to the transport.
C7_NoWriteAfterLost ==
    [][\A c \in Conns : conn[c] = "lost" => written'[c] = written[c]]_vars

\* C8: a payload framed as varint(L << 1) + payload and delivered in any
\* fragments raises no error in data_received, and once all its bytes are
\* delivered exactly that payload has been extracted and the buffer is empty.
C8_FramingRoundTrip ==
    \A c \in Conns :
        /\ conn[c] # "broken"
        /\ (sent[c] = 1 /\ wire[c] = <<>>) =>
               /\ buffer[c] = <<>>
               /\ \E payload \in LongPayloads :
                      received[c] = Frame(payload) /\ extracted[c] = <<payload>>

\* C9: a unit failure seen at drain time is fatal to the connection: no
\* response of a later request is written once a unit has been dropped as
\* failed.
C9_NoResponseAfterFailure ==
    \A c \in Conns : \A k \in 1..Len(written[c]) : \A f \in dropped[c] :
        written[c][k].unit < f

\* C10: on a connection with no handler bound, an echo request that has run
\* has ended with a response carrying exactly its message and a flush request
\* with the empty acknowledgement, and the body written for either is that
\* response; and a connection that has decoded only echo and flush requests
\* has never called app.get_connection_handler and has self.handler None.
C10_EchoFlushBuiltIn ==
    \A c \in Conns :
        /\ handler[c] = "None" =>
               /\ \A i \in 1..Len(tasks[c]) :
                      LET t == tasks[c][i]
                      IN  (t.name \in {"echo", "flush"} /\ t.st # "created") =>
                              /\ t.st = "result"
                              /\ t.response = IF t.name = "echo" THEN t.message ELSE <<>>
               /\ \A k \in 1..Len(written[c]) :
                      LET r == RequestOf(c, written[c][k].unit)
                      IN  (k % 2 = 0 /\ r.name \in {"echo", "flush"}) =>
                              written[c][k].data =
                                  EncodeResponse(r.name,
                                                 IF r.name = "echo" THEN r.message ELSE <<>>)
        /\ (\A k \in 1..Len(extracted[c]) :
                ParseRequest(extracted[c][k]).name \in {"echo", "flush"})
               => handler[c] = "None" /\ getCalls[c] = <<>>

\* An echo with message <<5>> and a flush were answered on a connection that
\* never bound a handler.
C10_Witness ==
    \E c \in Conns :
        /\ extracted[c] = << <<1, 5>>, <<2>> >>
        /\ Len(written[c]) = 4
        /\ written[c][2].data = <<2, 5>>
        /\ written[c][4].data = <<3>>
        /\ handler[c] = "None"
        /\ getCalls[c] = <<>>

\* C11: echo and flush are answered by the engine and never routed to a
\* handler operation, whatever handler is bound: no echo or flush unit is ever
\* suspended in a handler operation, and the body written for an echo or a
\* flush is always the built-in answer.
C11_EchoFlushNeverRouted ==
    \A c \in Conns :
        /\ \A i \in 1..Len(tasks[c]) :
               tasks[c][i].name \in {"echo", "flush"} => tasks[c][i].st # "calling"
        /\ \A k \in 1..Len(written[c]) :
               LET r == RequestOf(c, written[c][k].unit)
               IN  (k % 2 = 0 /\ r.name \in {"echo", "flush"}) =>
                       written[c][k].data =
                           EncodeResponse(r.name,
                                          IF r.name = "echo" THEN r.message ELSE <<>>)

\* The operations of the handlers the connection has asked the application for.
Exposed(c) == UNION {HandlerOps(getCalls[c][k]) : k \in 1..Len(getCalls[c])}

\* C12: a request other than echo and flush ends with a response only when
\* the operation of a bound handler produced it; with no such operation (no
\* handler exposing the name was ever asked for) its unit fails with the
\* unimplemented-operation error, and a unit that failed is never written:
\* every body written for such a request is a handler's response, and no
\* write belongs to a unit dropped as failed.
C12_UnimplementedFailsUnwritten ==
    \A c \in Conns :
        /\ \A i \in 1..Len(tasks[c]) :
               LET t == tasks[c][i]
               IN  (t.name \notin {"echo", "flush"} /\ Done(t)) =>
                       \/ /\ t.st = "result"
                          /\ t.response = HandlerResponse
                          /\ t.name \in Exposed(c)
                       \/ /\ t.st = "exception"
                          /\ t.name \notin Exposed(c) => t.exc = "NotImplementedError"
        /\ \A k \in 1..Len(written[c]) :
               LET r == RequestOf(c, written[c][k].unit)
               IN  r.name \notin {"echo", "flush"} =>
                       /\ r.name \in Exposed(c)
                       /\ k % 2 = 0 => written[c][k].data = EncodeResponse(r.name, HandlerResponse)
        /\ \A k \in 1..Len(written[c]) : written[c][k].unit \notin dropped[c]

\* An info request bound an InfoHandler and was answered; the commit request
\* after it found no commit operation on that handler, failed with
\* NotImplementedError and was dropped with nothing written for it.
C12_Witness ==
    \E c \in Conns :
        /\ getCalls[c] = <<"InfoHandler">>
        /\ Len(extracted[c]) = 2
        /\ RequestOf(c, 2).name = "commit"
        /\ 2 \in dropped[c]
        /\ "NotImplementedError" \in loopErrors[c]
        /\ WrittenUnits(c) = <<1, 1>>

\* What a connection owns: the attributes of its Protocol object, the calls
\* of its transport and the callbacks and tasks scheduled for it.
Own(c) == <<conn[c], buffer[c], tasks[c], handler[c], written[c], callbacks[c],
            closeTask[c], closeCb[c], lostExc[c], wire[c], sent[c], received[c],
            extracted[c], getCalls[c]>>

\* What must stay untouched of a connection: its buffer, queue, handler,
\* written output and membership in server_state.connections.
Protected(c) == <<buffer[c], tasks[c], handler[c], written[c], c \in connections>>

\* C13: with two connections, a step of one connection (the step changes
\* what that connection owns) leaves the buffer, queue, handler, written
\* output and set membership of the other connection unchanged.
C13_ConnectionsIsolated ==
    [][\A c \in Conns : \A o \in Conns \ {c} :
          Own(c)' # Own(c) => Protected(o)' = Protected(o)]_vars

\* Both connections are registered and have worked: the first has bound an
\* InfoHandler, written its response and been lost, the second is open with
\* a ConsensusHandler bound and a unit in its queue.
C13_Witness ==
    /\ connections = {1, 2}
    /\ conn[1] = "lost" /\ conn[2] = "open"
    /\ handler[1] = "InfoHandler" /\ handler[2] = "ConsensusHandler"
    /\ written[1] # <<>> /\ written[2] = <<>>
    /\ tasks[1] = <<>> /\ tasks[2] # <<>>

\* C14: once connection_lost has been called, no step decodes a request or
\* appends a unit to the queue of that connection, data_received included.
C14_NoUnitAfterLost ==
    [][\A c \in Conns :
          conn[c] = "lost" =>
              /\ extracted'[c] = extracted[c]
              /\ Len(tasks'[c]) <= Len(tasks[c])]_vars

\* C15: every run of process_response_tasks drains until the queue is empty
\* or its head is pending, whether the heads it met succeeded or failed; so
\* when no done-callback is left to run, no completed unit is at the head of
\* the queue waiting for a further completion.
C15_HeadDrainComplete ==
    \A c \in Conns :
        callbacks[c] = 0 => (tasks[c] = <<>> \/ ~Done(Head(tasks[c])))

\* C16: the writes to the transport come in pairs, a prefix and then the
\* body of the same response with no other write between them; the prefix is
\* the varint of the body's length shifted left by one (it decodes, whole, to
\* twice that length); and the pair is the response of a unit that ended
\* with a result: it carries that request's response variant and the unit
\* was not dropped as failed.
C16_WritesArePairs ==
    \A c \in Conns :
        /\ Len(written[c]) % 2 = 0
        /\ \A k \in 1..Len(written[c]) :
               k % 2 = 1 =>
                   LET prefix == written[c][k]
                       body == written[c][k + 1]
                       d == DecodeVarint(prefix.data)
                   IN  /\ prefix.unit = body.unit
                       /\ prefix.data = EncodeVarint(Len(body.data) * 2)
                       /\ d.ok /\ d.pos = Len(prefix.data)
                       /\ d.result \div 2 = Len(body.data) /\ d.result % 2 = 0
                       /\ body.data # <<>>
                       /\ body.data[1] = ResponseTag(RequestOf(c, body.unit).name)
                       /\ body.unit \notin dropped[c]
                       /\ \A i \in 1..Len(tasks[c]) : tasks[c][i].id # body.unit

\* Two responses have been written, the echo of <<5>> and then a flush: the
\* prefix 04 before the two-byte echo body, the prefix 02 before the
\* one-byte flush body.
C16_Witness ==
    \E c \in Conns :
        /\ Len(written[c]) = 4
        /\ written[c][1].data = <<4>> /\ written[c][2].data = <<2, 5>>
        /\ written[c][3].data = <<2>> /\ written[c][4].data = <<3>>

RECURSIVE WireForm(_)
\* The wire forms (prefix, then payload) of a sequence of payloads, joined.
WireForm(payloads) ==
    IF payloads = <<>> THEN <<>>
    ELSE Frame(Head(payloads)) \o WireForm(Tail(payloads))

\* C17: the bytes received so far are the wire forms of the frames extracted
\* so far, in order, followed by the buffer; and a request is dispatched only
\* once its frame is out of the buffer: every unit of the queue is the
\* request of an extracted frame.
C17_ReceivedIsFramesThenBuffer ==
    \A c \in Conns :
        /\ received[c] = WireForm(extracted[c]) \o buffer[c]
        /\ \A i \in 1..Len(tasks[c]) :
               /\ tasks[c][i].id \in 1..Len(extracted[c])
               /\ tasks[c][i].name = RequestOf(c, tasks[c][i].id).name
               /\ tasks[c][i].message = RequestOf(c, tasks[c][i].id).message

\* An echo frame has been extracted and the first two bytes of a second echo
\* frame wait in the buffer.
C17_Witness ==
    \E c \in Conns :
        /\ received[c] = <<4, 1, 5, 4, 1>>
        /\ extracted[c] = << <<1, 5>> >>
        /\ buffer[c] = <<4, 1>>

\* No complete frame starts the buffer: it is empty, or its length prefix is
\* cut short, or it announces more bytes than follow it.
NoCompleteFrame(buf) ==
    \/ buf = <<>>
    \/ LET d == DecodeVarint(buf)
       IN  d.ok => Len(buf) < d.pos + d.result \div 2

\* C18: a call of data_received whose data, after the bytes already in the
\* buffer, holds k complete frames followed by an incomplete one appends
\* exactly k units, those of the k frames in stream order, behind the units
\* already queued, and leaves in the buffer the incomplete frame and no
\* complete frame.
C18_UnitsPerCall ==
    [][\A c \in Conns :
          received'[c] # received[c] =>
              LET old == Len(extracted[c])
                  k == Len(extracted'[c]) - old
                  data == SubSeq(received'[c], Len(received[c]) + 1, Len(received'[c]))
              IN  /\ k >= 0
                  /\ buffer[c] \o data =
                         WireForm(SubSeq(extracted'[c], old + 1, old + k)) \o buffer'[c]
                  /\ NoCompleteFrame(buffer'[c])
                  /\ Len(tasks'[c]) = Len(tasks[c]) + k
                  /\ \A j \in 1..Len(tasks[c]) : tasks'[c][j] = tasks[c][j]
                  /\ \A j \in 1..k :
                         LET t == tasks'[c][Len(tasks[c]) + j]
                             r == ParseRequest(extracted'[c][old + j])
                         IN  /\ t.id = old + j
                             /\ t.name = r.name /\ t.message = r.message
                             /\ t.st = "created"]_vars

\* The state a single call leaves that delivered an echo frame, a flush
\* frame and the prefix of a third frame: two units queued in that order,
\* not yet run, and the prefix alone in the buffer.
C18_Witness ==
    \E c \in Conns :
        /\ received[c] = <<4, 1, 5, 2, 2, 4>>
        /\ buffer[c] = <<4>>
        /\ Len(tasks[c]) = 2
        /\ tasks[c][1].name = "echo" /\ tasks[c][1].st = "created"
        /\ tasks[c][2].name = "flush" /\ tasks[c][2].st = "created"

\* The ids of the units in the queue of connection c.
QueuedUnits(c) == {tasks[c][i].id : i \in 1..Len(tasks[c])}

\* C19: every decoded request is in exactly one place: the number of
\* requests decoded is the length of the queue plus the number of responses
\* written plus the number of units dropped as failed; the queue holds no
\* unit twice; no unit has two responses written; and a unit written or
\* dropped is no longer in the queue, and none is both written and dropped.
C19_UnitsConserved ==
    \A c \in Conns :
        /\ Len(extracted[c]) =
               Len(tasks[c]) + Len(written[c]) \div 2 + Cardinality(dropped[c])
        /\ Cardinality(QueuedUnits(c)) = Len(tasks[c])
        /\ \A j, k \in 1..Len(written[c]) :
               (j % 2 = 0 /\ k % 2 = 0 /\ j # k) => written[c][j].unit # written[c][k].unit
        /\ \A k \in 1..Len(written[c]) :
               /\ written[c][k].unit \notin QueuedUnits(c)
               /\ written[c][k].unit \notin dropped[c]
        /\ dropped[c] \cap QueuedUnits(c) = {}

\* Of two decoded requests the first was dropped as failed and the second
\* written afterwards, and the queue is empty.
C19_Witness ==
    \E c \in Conns :
        /\ Len(extracted[c]) = 2
        /\ dropped[c] = {1}
        /\ WrittenUnits(c) = <<2, 2>>
        /\ tasks[c] = <<>>

\* C20: a frame with a zero-length payload is a valid frame of one byte: a
\* zero byte never waits at the front of the buffer, and a stream of zero
\* bytes yields one empty payload per byte.  Its request has no variant name;
\* its unit never asks for a handler and is never suspended in one: once run
\* it has failed with NotImplementedError, and nothing is written for it.  A
\* connection that decoded only such frames has no handler and never called
\* get_connection_handler.
C20_EmptyFrame ==
    \A c \in Conns :
        /\ buffer[c] = <<>> \/ buffer[c][1] # 0
        /\ (\A k \in 1..Len(received[c]) : received[c][k] = 0) =>
               /\ Len(extracted[c]) = Len(received[c])
               /\ \A k \in 1..Len(extracted[c]) : extracted[c][k] = <<>>
               /\ handler[c] = "None" /\ getCalls[c] = <<>>
        /\ \A i \in 1..Len(tasks[c]) :
               LET t == tasks[c][i]
               IN  extracted[c][t.id] = <<>> =>
                       /\ t.name = "" /\ t.kind = "None"
                       /\ \/ t.st = "created"
                          \/ t.st = "exception" /\ t.exc = "NotImplementedError"
        /\ \A k \in 1..Len(written[c]) : extracted[c][written[c][k].unit] # <<>>

\* The single byte 00 was received and extracted as an empty payload; its
\* unit failed with NotImplementedError and was dropped, nothing was written
\* and no handler was asked for.
C20_Witness ==
    \E c \in Conns :
        /\ received[c] = <<0>>
        /\ extracted[c] = << <<>> >>
        /\ buffer[c] = <<>>
        /\ dropped[c] = {1}
        /\ loopErrors[c] = {"NotImplementedError"}
        /\ written[c] = <<>>
        /\ handler[c] = "None" /\ getCalls[c] = <<>>

====
